---- MODULE Spec2Model ----
(***************************************************************************)
(* Boostify (src/server.js): Discord OAuth2 login, HMAC-signed session     *)
(* cookie, in-memory session store, and two role-gated downloads.          *)
(*                                                                         *)
(* Strings that the Signer handles are sequences of one-character strings, *)
(* so that sign / verify are computed character by character as            *)
(* String.split and template concatenation compute them.                   *)
(*                                                                         *)
(* Idealisations (the usual symbolic treatment of cryptography):           *)
(*   - the HMAC-SHA256 hex digest is a fixed-width hex string that is      *)
(*     collision-free on the bounded value space;                          *)
(*   - crypto.randomBytes never returns a session id it returned before.   *)
(***************************************************************************)
EXTENDS Naturals, Sequences, FiniteSets, Bags

VARIABLES
    env,        \* process.env as read at start-up (server.js 17-26)
    sessions,   \* the Map sid -> { discord_user_id, username } (server.js 29)
    issued,     \* history: every sid makeSid has returned so far, with the
                \* identity stored under it
    revoked,    \* history: every sid whose POST /logout has been answered
    consumed,   \* history: every nonce a callback has passed validation
                \* with (recorded under NonceSpec only)
    reqs,       \* the bag of requests suspended at an await
    out,        \* what the handler step just taken did (request, response)
    sv,         \* Signer harness: the value handed to sign
    stok,       \* Signer harness: the token under test
    skind,      \* Signer harness: how stok was obtained
    sres        \* Signer harness: what verify returned for stok

vars == <<env, sessions, issued, revoked, consumed, reqs, out,
          sv, stok, skind, sres>>

sysvars == <<env, sessions, issued, revoked, consumed, reqs, out>>

sigvars == <<sv, stok, skind, sres>>

-----------------------------------------------------------------------------
(* Bounds *)

\* longest value handed to sign in the Signer harness
MaxLen == 3

\* number of requests that can be suspended at an await at the same time
MaxReqs == 2

\* number of distinct session ids makeSid can return
MaxSids == 2

-----------------------------------------------------------------------------
(* Strings *)

\* the characters a signed value is made of: two hex digits and the delimiter
Alphabet == <<"a", "b", ".">>

HexChars == <<"0", "1", "2", "3", "4", "5", "6", "7",
              "8", "9", "a", "b", "c", "d", "e", "f">>

\* JavaScript's undefined (an absent cookie or query parameter) and null
Undefined == <<"undefined">>

Null == <<"null">>

\* the harness has not called verify yet
Unset == <<"unset">>

Range(s) == { s[i] : i \in 1..Len(s) }

StringsUpTo(chars, n) == UNION { [1..k -> chars] : k \in 0..n }

\* !x for a string-or-undefined x
Falsy(x) == x = Undefined \/ x = Null \/ x = <<>>

-----------------------------------------------------------------------------
(* Signer: server.js 35-46 *)

\* SESSION_SECRET, the HMAC key
SessionSecret == 1367

\* length of the hex digest (64 for SHA-256; scaled down)
DigestLen == 5

\* every character a token can hold
AllChars == HexChars \o <<".">>

CharCode(c) == CHOOSE i \in 1..Len(AllChars) : AllChars[i] = c

\* the string read as a number, one digit in 1..Len(AllChars) per character
RECURSIVE StrCode(_)
StrCode(s) ==
    IF s = <<>> THEN 0
    ELSE StrCode(SubSeq(s, 1, Len(s) - 1)) * Len(AllChars) + CharCode(s[Len(s)])

RECURSIVE ToHex(_, _)
ToHex(n, width) ==
    IF width = 0 THEN <<>>
    ELSE Append(ToHex(n \div 16, width - 1), HexChars[(n % 16) + 1])

\* crypto.createHmac("sha256", SESSION_SECRET).update(value).digest("hex")
Hmac(value) ==
    ToHex((StrCode(value) * 2731 + SessionSecret) % (16 ^ DigestLen), DigestLen)

\* sign with the delimiter left out of the template: `${value}${h}`
signNoDelimiter(value) == value \o Hmac(value)

\* `${value}.${h}`
sign(value) == value \o <<".">> \o Hmac(value)

\* String.prototype.split("."): the pieces between the delimiters
RECURSIVE Split(_)
Split(s) ==
    IF "." \notin Range(s) THEN <<s>>
    ELSE LET k == CHOOSE i \in 1..Len(s) :
                     s[i] = "." /\ \A j \in 1..(i - 1) : s[j] # "."
         IN  <<SubSeq(s, 1, k - 1)>> \o Split(SubSeq(s, k + 1, Len(s)))

verify(signed) ==
    IF Falsy(signed) \/ "." \notin Range(signed) THEN Null
    ELSE LET parts == Split(signed)
             value == parts[1]
             h == parts[2]
             expected == Hmac(value)
         IN  IF h # expected THEN Null ELSE value

-----------------------------------------------------------------------------
(* Configuration: server.js 17-26 *)

\* an environment variable that is not set
NoValue == ""

FullEnv ==
    [ DISCORD_CLIENT_ID |-> "id", DISCORD_CLIENT_SECRET |-> "secret",
      DISCORD_REDIRECT_URI |-> "uri", DISCORD_GUILD_ID |-> "guild",
      ROLE_BASIC_ID |-> "r1", ROLE_PRO_ID |-> "r2",
      DISCORD_BOT_TOKEN |-> "bot" ]

\* the configurations the process can be started with: complete, one
\* variable missing, and both role variables naming the same role
Envs ==
    { FullEnv, [FullEnv EXCEPT !.ROLE_PRO_ID = "r1"] }
    \cup { [FullEnv EXCEPT ![k] = NoValue] : k \in DOMAIN FullEnv }

\* needEnv(name, value)
needEnv(value) == value # NoValue

-----------------------------------------------------------------------------
(* The provider (Discord) and the browser, as far as the routes see them *)

Users ==
    { [discord_user_id |-> "42", username |-> "ann"],
      [discord_user_id |-> "77", username |-> "bob"] }

NoIdent == [discord_user_id |-> "", username |-> ""]

\* the role ids a guild member can carry
RoleUniverse == {"r1", "r2", "r3"}

\* what GET /guilds/:id/members/:user can answer: a member object whose
\* roles field is an array or not, 404, another non-success status, or a
\* rejected fetch / unparsable body
MemberResponses ==
    { [kind |-> "ok", isArray |-> TRUE, roles |-> R] : R \in SUBSET RoleUniverse }
    \cup { [kind |-> k, isArray |-> FALSE, roles |-> {}] :
             k \in {"ok", "notfound", "fail", "reject"} }

NoMember == [kind |-> "none", isArray |-> FALSE, roles |-> {}]

\* authorization codes: the provider can exchange "good" and refuses "bad"
Codes == {"good", "bad"}

\* outcomes of the token exchange and of the user fetch
Outcomes == {"ok", "fail", "reject"}

\* values of the state parameter and of the oauth_state cookie
Nonces == {"n1", "n2"}

\* a query parameter or plain-string cookie the request does not carry
Absent == "<undefined>"

\* what a client can send as code, as state and as the oauth_state cookie
CodeValues == Codes \cup {Absent}

StateValues == Nonces \cup {Absent, ""}

NonceCookies == Nonces \cup {Absent}

\* !x for a query parameter or cookie that is a plain string
Missing(x) == x = Absent \/ x = ""

\* makeSid: crypto.randomBytes(24).toString("hex"), scaled down to one hex
\* character out of "a", "b", ...
SidSpace == { <<HexChars[10 + k]>> : k \in 1..MaxSids }

\* the sid cookies a client can present: none, empty, the signed empty
\* string, a signed id, and for the id "a" the bare id, the signed id with
\* its last signature character changed, and the signed id followed by a
\* further segment
SidCookies ==
    {Undefined, <<>>, sign(<<>>)}
    \cup { sign(s) : s \in SidSpace }
    \cup { <<"a">>,
           SubSeq(sign(<<"a">>), 1, Len(sign(<<"a">>)) - 1) \o <<".">>,
           sign(<<"a">>) \o <<".", "a">> }

Protected == {"me", "basic", "pro", "logout"}

-----------------------------------------------------------------------------
(* AccessResolver: server.js 136-162 *)

\* fetchMemberRoles testing the guild id and the bot token only
MemberConfigOKNoRoleIds(e) ==
    /\ needEnv(e.DISCORD_GUILD_ID)
    /\ needEnv(e.DISCORD_BOT_TOKEN)

\* fetchMemberRoles, lines 137-140: all four settings are present
MemberConfigOK(e) ==
    /\ needEnv(e.DISCORD_GUILD_ID)
    /\ needEnv(e.DISCORD_BOT_TOKEN)
    /\ needEnv(e.ROLE_BASIC_ID)
    /\ needEnv(e.ROLE_PRO_ID)

\* fetchMemberRoles treating every non-success as an empty role list
MemberThrowsNever(m) == FALSE

\* fetchMemberRoles, lines 147-154: true when it throws
MemberThrows(m) == m.kind \in {"fail", "reject"}

\* fetchMemberRoles answering from a role list kept from an earlier grant
MemberRolesRemembered(m) == {"r1", "r2"}

\* fetchMemberRoles, lines 147-154: the list it returns
MemberRoles(m) ==
    IF m.kind = "ok" /\ m.isArray THEN m.roles ELSE {}

\* getAccess with has_basic computed from the Basic role alone
getAccessBasicOnly(e, roles) ==
    [has_basic |-> e.ROLE_BASIC_ID \in roles, has_pro |-> e.ROLE_PRO_ID \in roles]

\* getAccess with has_pro computed from the Basic role
getAccessWrongRole(e, roles) ==
    [has_basic |-> e.ROLE_PRO_ID \in roles \/ e.ROLE_BASIC_ID \in roles,
     has_pro |-> e.ROLE_BASIC_ID \in roles]

\* getAccess, lines 159-161
getAccess(e, roles) ==
    LET has_pro == e.ROLE_PRO_ID \in roles
        has_basic == has_pro \/ e.ROLE_BASIC_ID \in roles
    IN  [has_basic |-> has_basic, has_pro |-> has_pro]

NoAccess == [has_basic |-> FALSE, has_pro |-> FALSE]

-----------------------------------------------------------------------------
(* Requests and responses *)

\* what a suspended request holds on to: the await it is at (pc), its
\* route, and the values its continuation reads
Request ==
    [pc |-> "new", route |-> "none", code |-> Absent,
     sessionId |-> Undefined, session |-> NoIdent]

\* The record of one handler step, kept until the step is over. step is "request" for the step that
\* starts with the arrival of the request (middleware and handler up to
\* the first await or to the response) and "resume" for a continuation
\* after an await. status is 0 while no response has been sent.
NoEvent ==
    [step |-> "none", route |-> "none",
     code |-> Absent, state |-> Absent, nonceCookie |-> Absent,
     sidCookie |-> Undefined,
     status |-> 0, unhandled |-> FALSE, calls |-> {},
     setNonce |-> Absent, clearNonce |-> FALSE,
     setSid |-> Undefined, clearSid |-> FALSE, location |-> "",
     sessionId |-> Undefined, session |-> NoIdent,
     fetched |-> NoIdent, member |-> NoMember,
     json |-> NoIdent, access |-> NoAccess, sent |-> "", fileError |-> FALSE]

\* the server takes a request while fewer than MaxReqs are suspended
HasRoom == BagCardinality(reqs) < MaxReqs

Suspended == BagToSet(reqs)

\* a new request reaches its first await
Suspend(r) == reqs' = reqs (+) SetToBag({r})

\* the suspended request r runs to its response
Release(r) == reqs' = reqs (-) SetToBag({r})

\* the suspended request r runs to its next await, as r2
Advance(r, r2) == reqs' = (reqs (-) SetToBag({r})) (+) SetToBag({r2})

-----------------------------------------------------------------------------
(* GET /login: server.js 65-80 *)

LoginResponse(e, nonce) ==
    IF ~needEnv(e.DISCORD_CLIENT_ID) \/ ~needEnv(e.DISCORD_REDIRECT_URI)
    THEN [NoEvent EXCEPT !.step = "request", !.route = "login", !.status = 500]
    ELSE [NoEvent EXCEPT !.step = "request", !.route = "login", !.status = 302,
                         !.setNonce = nonce, !.location = "authorize"]

Login(nonce) ==
    /\ out = NoEvent
    /\ out' = LoginResponse(env, nonce)
    /\ UNCHANGED <<env, sessions, issued, revoked, reqs, sigvars, consumed>>

-----------------------------------------------------------------------------
(* GET /callback: server.js 83-133 *)

\* line 87 without the comparison against the cookie
InvalidStateNoCompare(code, state, expectedState) ==
    Missing(code) \/ Missing(state)

\* line 87
InvalidState(code, state, expectedState) ==
    Missing(code) \/ Missing(state) \/ state # expectedState

CallbackEvent(code, state, expectedState) ==
    [NoEvent EXCEPT !.step = "request", !.route = "callback", !.code = code,
                    !.state = state, !.nonceCookie = expectedState]

\* lines 84-103: validation, the client-secret check, the token request
Callback(code, state, expectedState) ==
    /\ out = NoEvent
    /\ HasRoom
    /\ IF InvalidState(code, state, expectedState)
       THEN /\ out' = [CallbackEvent(code, state, expectedState)
                          EXCEPT !.status = 400]
            /\ UNCHANGED reqs
       ELSE IF ~needEnv(env.DISCORD_CLIENT_SECRET)
       THEN /\ out' = [CallbackEvent(code, state, expectedState)
                          EXCEPT !.status = 500]
            /\ UNCHANGED reqs
       ELSE /\ out' = [CallbackEvent(code, state, expectedState)
                          EXCEPT !.calls = {"token"}]
            /\ Suspend([Request EXCEPT !.pc = "token", !.route = "callback",
                                       !.code = code])
    /\ UNCHANGED <<env, sessions, issued, revoked, sigvars>>

\* lines 96-102: the provider exchanges a code it issued, for a request
\* that names the client and the registered redirect URI
Exchangeable(e, code) ==
    /\ code = "good"
    /\ needEnv(e.DISCORD_CLIENT_ID)
    /\ needEnv(e.DISCORD_REDIRECT_URI)

\* lines 105-115: the token response arrives; a rejected fetch or an
\* unparsable body throws out of the async handler, which nothing catches
TokenResponse(r, outcome) ==
    /\ out = NoEvent
    /\ r.pc = "token"
    /\ outcome = "ok" => Exchangeable(env, r.code)
    /\ LET ev == [NoEvent EXCEPT !.step = "resume", !.route = "callback",
                                 !.calls = {"token"}]
       IN  IF outcome = "fail"
           THEN out' = [ev EXCEPT !.status = 500] /\ Release(r)
           ELSE IF outcome = "reject"
           THEN out' = [ev EXCEPT !.unhandled = TRUE] /\ Release(r)
           ELSE /\ out' = [ev EXCEPT !.calls = {"token", "user"}]
                /\ Advance(r, [r EXCEPT !.pc = "user", !.code = Absent])
    /\ UNCHANGED <<env, sessions, issued, revoked, sigvars, consumed>>

\* makeSid with no regard for the ids handed out before
makeSidAny(used) == SidSpace

\* makeSid, lines 31-33: the ids randomBytes can return next
makeSid(used) == SidSpace \ used

\* a store that is replaced by the new entry instead of extended
SessionsSetReplace(store, sid, ident) == [s \in {sid} |-> ident]

\* sessions.set(sid, ident), lines 125-128
SessionsSet(store, sid, ident) ==
    [s \in DOMAIN store \cup {sid} |-> IF s = sid THEN ident ELSE store[s]]

\* the callback with the session stored before meRes.ok is tested
UserResponseEager(r, outcome, me) ==
    /\ out = NoEvent
    /\ r.pc = "user"
    /\ LET ev == [NoEvent EXCEPT !.step = "resume", !.route = "callback",
                                 !.calls = {"token", "user"}]
       IN  \E sid \in makeSid(DOMAIN issued) :
             /\ sessions' = SessionsSet(sessions, sid, me)
             /\ issued' = SessionsSet(issued, sid, me)
             /\ IF outcome = "fail" THEN out' = [ev EXCEPT !.status = 500]
                ELSE IF outcome = "reject" THEN out' = [ev EXCEPT !.unhandled = TRUE]
                ELSE out' = [ev EXCEPT !.status = 302, !.fetched = me,
                                       !.sessionId = sid,
                                       !.clearNonce = TRUE,
                                       !.setSid = sign(sid),
                                       !.location = "/"]
    /\ Release(r)
    /\ UNCHANGED <<env, revoked, sigvars, consumed>>

\* lines 117-132: the user response arrives
UserResponse(r, outcome, me) ==
    /\ out = NoEvent
    /\ r.pc = "user"
    /\ LET ev == [NoEvent EXCEPT !.step = "resume", !.route = "callback",
                                 !.calls = {"token", "user"}]
       IN  IF outcome = "fail"
           THEN /\ out' = [ev EXCEPT !.status = 500]
                /\ UNCHANGED <<sessions, issued>>
           ELSE IF outcome = "reject"
           THEN /\ out' = [ev EXCEPT !.unhandled = TRUE]
                /\ UNCHANGED <<sessions, issued>>
           ELSE \E sid \in makeSid(DOMAIN issued) :
                /\ sessions' = SessionsSet(sessions, sid, me)
                /\ issued' = SessionsSet(issued, sid, me)
                /\ out' = [ev EXCEPT !.status = 302, !.fetched = me,
                                     !.sessionId = sid,
                                     !.clearNonce = TRUE,
                                     !.setSid = sign(sid),
                                     !.location = "/"]
    /\ Release(r)
    /\ UNCHANGED <<env, revoked, sigvars, consumed>>

-----------------------------------------------------------------------------
(* requireAuth: server.js 48-54 *)

\* sessions.get(sid), line 52: undefined for a key the Map does not hold
SessionsGet(store, sid) ==
    IF sid \in DOMAIN store THEN store[sid] ELSE NoIdent

\* line 50 without the sessions.has(sid) test
requireAuthNoStoreCheck(store, cookie) == ~Falsy(verify(cookie))

\* line 50: the request goes on to the handler
requireAuth(store, cookie) ==
    LET sid == verify(cookie)
    IN  ~Falsy(sid) /\ sid \in DOMAIN store

-----------------------------------------------------------------------------
(* /api/me and the downloads: server.js 165-204 *)

\* sendZip, lines 179-184: res.sendFile answers 404 when the file is missing
sendZip(ev, filename, fileExists) ==
    [ev EXCEPT !.sent = filename,
               !.fileError = ~fileExists,
               !.status = IF fileExists THEN 200 ELSE 404]

\* the handlers with the pro.zip route testing has_basic
RespondCopyPaste(ev, e, route, m, fileExists) ==
    IF MemberThrows(m) THEN [ev EXCEPT !.status = 500, !.member = m]
    ELSE LET access == getAccess(e, MemberRoles(m))
             got == [ev EXCEPT !.member = m, !.access = access]
         IN  IF route = "me"
             THEN [got EXCEPT !.status = 200, !.json = ev.session]
             ELSE IF ~access.has_basic THEN [got EXCEPT !.status = 403]
             ELSE sendZip(got, IF route = "basic" THEN "basic.zip" ELSE "pro.zip",
                          fileExists)

\* the handler body after getAccess has settled (lines 166-175, 187-193,
\* 197-203); m is what the member lookup answered, NoMember when
\* fetchMemberRoles returned before the lookup
Respond(ev, e, route, m, fileExists) ==
    IF MemberThrows(m) THEN [ev EXCEPT !.status = 500, !.member = m]
    ELSE LET access == getAccess(e, MemberRoles(m))
             got == [ev EXCEPT !.member = m, !.access = access]
         IN  IF route = "me"
             THEN [got EXCEPT !.status = 200, !.json = ev.session]
             ELSE IF route = "basic"
             THEN IF ~access.has_basic THEN [got EXCEPT !.status = 403]
                  ELSE sendZip(got, "basic.zip", fileExists)
             ELSE IF ~access.has_pro THEN [got EXCEPT !.status = 403]
                  ELSE sendZip(got, "pro.zip", fileExists)

\* a logout that leaves the entry in the Map
SessionsDeleteNoop(store, sid) == store

\* a logout that drops every session of the same Discord user
SessionsDeleteAllOfUser(store, sid) ==
    [s \in {t \in DOMAIN store : store[t] # store[sid]} |-> store[s]]

\* POST /logout, lines 206-210: sessions.delete(req.sessionId)
SessionsDelete(store, sid) ==
    [s \in DOMAIN store \ {sid} |-> store[s]]

\* a request to a route behind requireAuth, up to its first await
ProtectedRequest(route, cookie) ==
    /\ out = NoEvent
    /\ HasRoom
    /\ LET ev == [NoEvent EXCEPT !.step = "request", !.route = route,
                                 !.sidCookie = cookie]
           sid == verify(cookie)
       IN  IF ~requireAuth(sessions, cookie)
           THEN /\ out' = [ev EXCEPT !.status = 401]
                /\ UNCHANGED <<sessions, revoked, reqs>>
           ELSE LET authed == [ev EXCEPT !.sessionId = sid,
                                         !.session = SessionsGet(sessions, sid)]
                IN  IF route = "logout"
                    THEN /\ sessions' = SessionsDelete(sessions, sid)
                         /\ revoked' = revoked \cup {sid}
                         /\ out' = [authed EXCEPT !.status = 200,
                                                  !.clearSid = TRUE]
                         /\ UNCHANGED reqs
                    ELSE IF ~MemberConfigOK(env)
                    THEN /\ out' = Respond(authed, env, route, NoMember,
                                           TRUE)
                         /\ UNCHANGED <<sessions, revoked, reqs>>
                    ELSE /\ out' = [authed EXCEPT !.calls = {"member"}]
                         /\ Suspend([Request EXCEPT !.pc = "member",
                                                  !.route = route,
                                                  !.sessionId = sid,
                                                  !.session = authed.session])
                         /\ UNCHANGED <<sessions, revoked>>
    /\ UNCHANGED <<env, issued, sigvars, consumed>>

\* the member lookup settles and the handler runs to its response
MemberResponse(r, m, fileExists) ==
    /\ out = NoEvent
    /\ r.pc = "member"
    /\ LET ev == [NoEvent EXCEPT !.step = "resume", !.route = r.route,
                                 !.calls = {"member"},
                                 !.sessionId = r.sessionId,
                                 !.session = r.session]
       IN  out' = Respond(ev, env, r.route, m, fileExists)
    /\ Release(r)
    /\ UNCHANGED <<env, sessions, issued, revoked, sigvars, consumed>>

\* the handler step is over: its response (if any) has been written out
\* and the event loop takes the next request or settled promise
Yield ==
    /\ out # NoEvent
    /\ out' = NoEvent
    /\ UNCHANGED <<env, sessions, issued, revoked, reqs, sigvars, consumed>>

-----------------------------------------------------------------------------
(* Signer harness: sign a value, tamper with the token, verify it *)

Values == StringsUpTo(Range(Alphabet), MaxLen)

\* the strings a tampered payload can be: any value, or a token the
\* server signed for some value
Payloads == Values \cup { sign(x) : x \in Values }

SignValue ==
    /\ skind = "none"
    /\ stok' = sign(sv)
    /\ skind' = "signed"
    /\ UNCHANGED <<sv, sres, sysvars>>

\* one character of the signature part replaced by another
FlipSignature(k, c) ==
    /\ skind = "signed"
    /\ k > Len(sv) + 1
    /\ k <= Len(stok)
    /\ stok[k] # c
    /\ stok' = [stok EXCEPT ![k] = c]
    /\ skind' = "sigflip"
    /\ UNCHANGED <<sv, sres, sysvars>>

\* the payload part replaced by another one, the signature kept
AlterPayload(p) ==
    /\ skind = "signed"
    /\ p # sv
    /\ stok' = p \o <<".">> \o Hmac(sv)
    /\ skind' = "payload"
    /\ UNCHANGED <<sv, sres, sysvars>>

\* a further delimiter and some text appended to a signed token
AppendSuffix(x) ==
    /\ skind = "signed"
    /\ stok' = stok \o <<".">> \o x
    /\ skind' = "suffix"
    /\ UNCHANGED <<sv, sres, sysvars>>

VerifyToken ==
    /\ skind # "none"
    /\ sres = Unset
    /\ sres' = verify(stok)
    /\ UNCHANGED <<sv, stok, skind, sysvars>>

-----------------------------------------------------------------------------
(* Specifications *)

SysInit ==
    /\ env \in Envs
    /\ sessions = << >>
    /\ issued = << >>
    /\ revoked = {}
    /\ consumed = {}
    /\ reqs = EmptyBag
    /\ out = NoEvent

SigIdle ==
    /\ sv = <<>>
    /\ stok = Undefined
    /\ skind = "none"
    /\ sres = Unset

Init == SysInit /\ SigIdle

Next ==
    \/ \E nonce \in Nonces : Login(nonce)
    \/ \E code \in CodeValues, state \in StateValues, cookie \in NonceCookies :
          Callback(code, state, cookie) /\ UNCHANGED consumed
    \/ \E r \in Suspended, o \in Outcomes : TokenResponse(r, o)
    \/ \E r \in Suspended, o \in Outcomes, me \in Users : UserResponse(r, o, me)
    \/ \E route \in Protected, cookie \in SidCookies :
          ProtectedRequest(route, cookie)
    \/ \E r \in Suspended, m \in MemberResponses, f \in BOOLEAN :
          MemberResponse(r, m, f)
    \/ Yield

Spec == Init /\ [][Next]_vars

\* the same server with the nonces of validated callbacks recorded
NonceNext ==
    \/ \E nonce \in Nonces : Login(nonce)
    \/ \E code \in CodeValues, state \in StateValues, cookie \in NonceCookies :
          /\ Callback(code, state, cookie)
          /\ consumed' = IF out'.status = 400 THEN consumed
                         ELSE consumed \cup {state}
    \/ \E r \in Suspended, o \in Outcomes : TokenResponse(r, o)
    \/ \E r \in Suspended, o \in Outcomes, me \in Users : UserResponse(r, o, me)
    \/ \E route \in Protected, cookie \in SidCookies :
          ProtectedRequest(route, cookie)
    \/ \E r \in Suspended, m \in MemberResponses, f \in BOOLEAN :
          MemberResponse(r, m, f)
    \/ Yield

NonceSpec == Init /\ [][NonceNext]_vars

SignerInit ==
    /\ env = FullEnv
    /\ sessions = << >>
    /\ issued = << >>
    /\ revoked = {}
    /\ consumed = {}
    /\ reqs = EmptyBag
    /\ out = NoEvent
    /\ sv \in Values
    /\ stok = Undefined
    /\ skind = "none"
    /\ sres = Unset

SignerNext ==
    \/ SignValue
    \/ \E k \in 1..(MaxLen + 1 + DigestLen), c \in Range(HexChars) \cup {"."} :
          FlipSignature(k, c)
    \/ \E p \in Payloads : AlterPayload(p)
    \/ \E x \in Values : AppendSuffix(x)
    \/ VerifyToken

SignerSpec == SignerInit /\ [][SignerNext]_vars

-----------------------------------------------------------------------------
(* Signer properties, checked under SignerSpec *)

\* C7 as stated: for every value v, also one that contains the delimiter
\* '.', verify(sign(v)) returns v.
C7_RoundTripAnyValue ==
    (skind = "signed" /\ sres # Unset) => sres = sv

\* C7 amended: for every value v that does not contain the delimiter '.'
\* (the empty string included), verify(sign(v)) returns v.
C7_RoundTripNoDelimiter ==
    (skind = "signed" /\ sres # Unset /\ "." \notin Range(sv)) => sres = sv

C7_Witness ==
    /\ skind = "signed"
    /\ sv = <<"a", "b">>
    /\ stok = <<"a", "b", ".">> \o Hmac(sv)
    /\ sres = sv

\* C8: a token obtained from sign(v) by changing one signature character,
\* or by replacing the payload part and keeping the signature, verifies to
\* invalid (null).
C8_TamperedIsInvalid ==
    (skind \in {"sigflip", "payload"} /\ sres # Unset) => sres = Null

-----------------------------------------------------------------------------
(* Route properties, checked under Spec *)

\* the step taken is a handler step: it starts from the event loop and
\* leaves its record in out'
HandlerStep == out = NoEvent /\ out' # NoEvent

\* C1: a GET /callback whose code is absent, whose state is absent, or
\* whose state differs from the oauth_state cookie (an absent cookie
\* included) is answered 400 whatever the code is, and has no effect: no
\* provider call, no session added, no request left suspended, no sid
\* cookie set, nonce cookie not cleared.
C1_InvalidStateRejected ==
    [][ ( /\ HandlerStep
          /\ out'.step = "request"
          /\ out'.route = "callback"
          /\ \/ out'.code \in {Absent, ""}
             \/ out'.state \in {Absent, ""}
             \/ out'.state # out'.nonceCookie )
        => ( /\ out'.status = 400
             /\ out'.calls = {}
             /\ sessions' = sessions
             /\ issued' = issued
             /\ reqs' = reqs
             /\ out'.setSid = Undefined
             /\ ~out'.clearNonce ) ]_vars

\* a valid code with a state that differs from the cookie, one session live
C1_Witness ==
    /\ out.route = "callback"
    /\ out.code = "good"
    /\ out.state = "n2"
    /\ out.nonceCookie = "n1"
    /\ out.status = 400
    /\ DOMAIN sessions # {}

\* C2: a request to a protected route whose sid cookie is missing, fails
\* verify, or verifies to an id that is not a key of the store is answered
\* 401 without the handler running (no role query, no file transfer, no
\* store change); a handler that runs has the verified id and that id's
\* store entry attached.
C2_AuthGate ==
    [][ ( /\ HandlerStep
          /\ out'.step = "request"
          /\ out'.route \in Protected )
        => LET sid == verify(out'.sidCookie)
               known == sid # Null /\ sid \in DOMAIN sessions
           IN  /\ ~known =>
                     /\ out'.status = 401
                     /\ out'.calls = {}
                     /\ out'.sent = ""
                     /\ out'.json = NoIdent
                     /\ ~out'.clearSid
                     /\ sessions' = sessions
                     /\ reqs' = reqs
               /\ out'.status # 401 =>
                     /\ known
                     /\ out'.sessionId = sid
                     /\ out'.session = sessions[sid]
                     /\ \A r \in BagToSet(reqs') :
                           CopiesIn(r, reqs') > CopiesIn(r, reqs) =>
                              /\ r.sessionId = sid
                              /\ r.session = sessions[sid] ]_vars

\* a correctly signed cookie for an id the store does not hold, while it
\* holds another one
C2_Witness ==
    /\ out.route = "pro"
    /\ out.sidCookie = <<"b", ".">> \o Hmac(<<"b">>)
    /\ DOMAIN sessions = {<<"a">>}
    /\ out.status = 401

\* C3: once POST /logout has succeeded for a session, every later request
\* to a protected route that presents that session's signed cookie is
\* answered 401, whatever happened in between.
C3_LoggedOutCookieRejected ==
    [][ ( /\ HandlerStep
          /\ out'.step = "request"
          /\ out'.route \in Protected
          /\ \E s \in revoked : out'.sidCookie = s \o <<".">> \o Hmac(s) )
        => out'.status = 401 ]_vars

\* the cookie of a logged-out session is refused while the session created
\* after it is live
C3_Witness ==
    /\ revoked # {}
    /\ DOMAIN sessions # {}
    /\ out.route = "basic"
    /\ \E s \in revoked : out.sidCookie = s \o <<".">> \o Hmac(s)
    /\ out.status = 401

\* the flag a download route requires
RouteFlag(route, access) ==
    IF route = "basic" THEN access.has_basic ELSE access.has_pro

RouteFile(route) == IF route = "basic" THEN "basic.zip" ELSE "pro.zip"

Downloads == {"basic", "pro"}

\* C4: sendZip is called only for a download request that passed the
\* AuthGate, made its own role query, and for which getAccess returned the
\* route's flag true (has_basic for basic.zip, has_pro for pro.zip); when
\* getAccess returns the flag false the answer is 403 and sendZip is not
\* called.
C4_ZipOnlyWithFlag ==
    /\ out.sent # "" =>
          /\ out.route \in Downloads
          /\ out.sent = RouteFile(out.route)
          /\ out.sessionId \in DOMAIN issued
          /\ out.session = issued[out.sessionId]
          /\ "member" \in out.calls
          /\ out.member.kind = "ok"
          /\ RouteFlag(out.route, out.access)
          /\ out.route = "pro" => env.ROLE_PRO_ID \in out.member.roles
          /\ out.route = "basic" =>
                \/ env.ROLE_PRO_ID \in out.member.roles
                \/ env.ROLE_BASIC_ID \in out.member.roles
    /\ ( /\ out.route \in Downloads
         /\ out.status \notin {0, 401, 500}
         /\ ~RouteFlag(out.route, out.access) )
       => (out.status = 403 /\ out.sent = "")

\* pro.zip is handed to sendZip for bob, whom the provider reports with
\* the Pro role
C4_Witness ==
    /\ out.route = "pro"
    /\ out.session.username = "bob"
    /\ out.member.roles = {"r2", "r3"}
    /\ out.access.has_pro
    /\ out.sent = "pro.zip"
    /\ out.status = 200

\* C5: every AccessRights value getAccess returns has has_pro => has_basic,
\* for every role list and every configuration.
C5_ProImpliesBasic ==
    /\ out.access.has_pro => out.access.has_basic
    /\ \A R \in SUBSET RoleUniverse :
          getAccess(env, R).has_pro => getAccess(env, R).has_basic

\* a member that holds the Pro role and not the Basic role
C5_Witness ==
    /\ out.member.kind = "ok"
    /\ env.ROLE_PRO_ID \in out.member.roles
    /\ env.ROLE_BASIC_ID \notin out.member.roles
    /\ out.access.has_pro
    /\ out.access.has_basic

\* C6: with the full configuration getAccess returns has_pro = (PRO_ROLE in
\* R) and has_basic = (PRO_ROLE in R or BASIC_ROLE in R) for every role list
\* R; a user whose tier roles are only BASIC_ROLE gets 403 on pro.zip and
\* is handed basic.zip, a user with PRO_ROLE alone is handed both archives
\* (answer 200 unless sendFile reports the file missing).
C6_AccessFromRoles ==
    env = FullEnv =>
       /\ \A R \in SUBSET RoleUniverse :
             getAccess(env, R) =
                [has_pro |-> "r2" \in R, has_basic |-> "r2" \in R \/ "r1" \in R]
       /\ ( /\ out.step = "resume"
            /\ out.route \in Downloads
            /\ out.member.kind = "ok"
            /\ out.member.isArray )
          => LET tiers == out.member.roles \cap {"r1", "r2"}
                 served == /\ out.sent = RouteFile(out.route)
                           /\ out.status = IF out.fileError THEN 404 ELSE 200
             IN  /\ (tiers = {"r1"} /\ out.route = "pro") =>
                       (out.status = 403 /\ out.sent = "")
                 /\ (tiers = {"r1"} /\ out.route = "basic") => served
                 /\ tiers = {"r2"} => served

\* a member with the Pro role alone is served basic.zip
C6_Witness ==
    /\ env = FullEnv
    /\ out.route = "basic"
    /\ out.member.roles = {"r2"}
    /\ out.sent = "basic.zip"
    /\ out.status = 200

\* what /api/me answers for an authenticated request whose role query
\* settled without an error
MeAnswer ==
    ( /\ out.route = "me"
      /\ out.sessionId # Undefined
      /\ out.status # 0
      /\ out.member.kind \notin {"fail", "reject"} )
    => /\ out.status = 200
       /\ out.sessionId \in DOMAIN issued
       /\ out.json = issued[out.sessionId]
       /\ out.access.has_pro = (env.ROLE_PRO_ID \in MemberRoles(out.member))
       /\ out.access.has_basic =
             \/ env.ROLE_PRO_ID \in MemberRoles(out.member)
             \/ env.ROLE_BASIC_ID \in MemberRoles(out.member)

\* C9: a callback whose user fetch succeeded (after a matching state and a
\* successful token exchange) adds exactly one new session holding the
\* fetched id and username, leaves the other sessions as they are, clears
\* the nonce cookie, sets the sid cookie to sign(thatSessionId) and
\* redirects to "/"; /api/me for a session answers the id and username the
\* session was created with and the flags derived from the roles the
\* provider reports to that request.
C9_CallbackCreatesSession ==
    [][ /\ ( /\ HandlerStep
             /\ out'.route = "callback"
             /\ out'.fetched # NoIdent )
           => /\ out'.status = 302
              /\ out'.location = "/"
              /\ out'.clearNonce
              /\ out'.calls = {"token", "user"}
              /\ out'.sessionId \notin DOMAIN sessions
              /\ DOMAIN sessions' = DOMAIN sessions \cup {out'.sessionId}
              /\ sessions'[out'.sessionId] = out'.fetched
              /\ \A s \in DOMAIN sessions : sessions'[s] = sessions[s]
              /\ out'.setSid = out'.sessionId \o <<".">> \o Hmac(out'.sessionId)
        /\ MeAnswer' ]_vars

\* /api/me answers ann's identity for the second session, created for ann
\* while bob's session is live
C9_Witness ==
    /\ out.route = "me"
    /\ out.status = 200
    /\ out.json = [discord_user_id |-> "42", username |-> "ann"]
    /\ out.access = [has_basic |-> TRUE, has_pro |-> FALSE]
    /\ Cardinality(DOMAIN sessions) = 2
    /\ \E s \in DOMAIN sessions : sessions[s].username = "bob"

\* C10: a callback that ends in a failure response (400, 500) leaves the
\* session store unchanged, sets no sid cookie and does not clear the
\* nonce cookie, also when the token exchange succeeded and the user fetch
\* failed.
C10_FailedCallbackNoEffect ==
    [][ ( /\ HandlerStep
          /\ out'.route = "callback"
          /\ out'.status \in {400, 500} )
        => ( /\ sessions' = sessions
             /\ issued' = issued
             /\ out'.setSid = Undefined
             /\ ~out'.clearNonce
             /\ out'.fetched = NoIdent ) ]_vars

\* the user fetch fails after the token exchange succeeded
C10_Witness ==
    /\ out.route = "callback"
    /\ out.status = 500
    /\ out.calls = {"token", "user"}
    /\ out.setSid = Undefined
    /\ Cardinality(DOMAIN sessions) = 1

\* the four settings fetchMemberRoles needs (lines 137-140)
MemberSettings ==
    {"DISCORD_GUILD_ID", "DISCORD_BOT_TOKEN", "ROLE_BASIC_ID", "ROLE_PRO_ID"}

\* a request that passed requireAuth on /api/me or a download route
Authenticated(ev) ==
    /\ ev.route \in {"me", "basic", "pro"}
    /\ ev.sessionId # Undefined

\* C12: when any of the guild id, bot token, Basic role id or Pro role id
\* is absent, an authenticated request makes no provider call and raises
\* no error, both flags are false, and both download routes answer 403
\* with no archive sent; no request is ever left waiting for a member
\* lookup.
C12_MissingConfigDeniesAll ==
    (\E k \in MemberSettings : env[k] = NoValue)
    => /\ \A r \in Suspended : r.pc # "member"
       /\ Authenticated(out)
          => /\ out.step = "request"
             /\ out.calls = {}
             /\ out.member = NoMember
             /\ ~out.unhandled
             /\ out.access = [has_basic |-> FALSE, has_pro |-> FALSE]
             /\ out.sent = ""
             /\ out.route \in Downloads => out.status = 403
             /\ out.route = "me" => out.status = 200

\* the Pro role id is unset and a logged-in user asks for the Basic pack
C12_Witness ==
    /\ env.ROLE_PRO_ID = NoValue
    /\ out.route = "basic"
    /\ out.sessionId \in DOMAIN sessions
    /\ out.status = 403
    /\ out.calls = {}

\* C13: a member lookup answered "not found" gives the empty role list:
\* both flags false, a download answers 403 and sends nothing.  Any other
\* failure of the lookup makes the route answer 500, with no flags, no
\* JSON body and no archive.
C13_LookupFailures ==
    /\ ( Authenticated(out) /\ out.member.kind = "notfound" )
       => /\ out.access = [has_basic |-> FALSE, has_pro |-> FALSE]
          /\ out.sent = ""
          /\ out.route \in Downloads => out.status = 403
          /\ out.route = "me" => out.status = 200
    /\ ( Authenticated(out) /\ out.member.kind \in {"fail", "reject"} )
       => /\ out.status = 500
          /\ out.sent = ""
          /\ out.json = NoIdent
          /\ out.access = NoAccess

\* the lookup fails with a server error while the Pro pack is requested
C13_Witness ==
    /\ out.route = "pro"
    /\ out.member.kind = "fail"
    /\ out.status = 500

\* C14 as stated: every authenticated /api/me or download request issues
\* its own provider role query.
C14_EveryRequestQueries ==
    Authenticated(out) => "member" \in out.calls

\* C14, amended: with the guild id, bot token and both role ids
\* configured, every authenticated /api/me or download request first
\* issues its own member lookup and answers only when that lookup has
\* settled; the flags and the 403/serve decision are a function of that
\* lookup's role list and the configured role ids alone, and the session
\* store is left unchanged.
C14_FreshRoleQuery ==
    [][ ( /\ HandlerStep
          /\ Authenticated(out')
          /\ \A k \in MemberSettings : env[k] # NoValue )
        => /\ sessions' = sessions
           /\ out'.step = "request"
              => /\ out'.status = 0
                 /\ out'.calls = {"member"}
                 /\ out'.access = NoAccess
                 /\ BagCardinality(reqs') = BagCardinality(reqs) + 1
           /\ out'.step = "resume"
              => /\ out'.calls = {"member"}
                 /\ out'.member # NoMember
                 /\ out'.member.kind \in {"ok", "notfound"}
                    => LET roles == IF out'.member.kind = "ok"
                                       /\ out'.member.isArray
                                    THEN out'.member.roles ELSE {}
                           pro == env.ROLE_PRO_ID \in roles
                           basic == pro \/ env.ROLE_BASIC_ID \in roles
                       IN  /\ out'.access = [has_basic |-> basic,
                                             has_pro |-> pro]
                           /\ out'.route = "me" => out'.status = 200
                           /\ out'.route = "basic"
                              => (out'.status = 403 <=> ~basic)
                           /\ out'.route = "pro"
                              => (out'.status = 403 <=> ~pro) ]_vars

\* a member who holds only the Basic role asks for the Pro pack: the
\* lookup made for this request decides, and the session stays in place
C14_Witness ==
    /\ env = FullEnv
    /\ out.step = "resume"
    /\ out.route = "pro"
    /\ out.member.kind = "ok"
    /\ out.member.roles = {"r1"}
    /\ out.status = 403
    /\ out.sessionId \in DOMAIN sessions

\* C15: a POST /logout whose cookie names a stored session answers 200,
\* clears the sid cookie and removes exactly that session's entry; every
\* other entry, also one of the same Discord user, keeps its identity and
\* is still accepted by requireAuth.
C15_LogoutFrame ==
    [][ ( /\ HandlerStep
          /\ out'.route = "logout"
          /\ verify(out'.sidCookie) \in DOMAIN sessions )
        => LET sid == verify(out'.sidCookie)
           IN  /\ out'.status = 200
               /\ out'.clearSid
               /\ out'.sessionId = sid
               /\ DOMAIN sessions' = DOMAIN sessions \ {sid}
               /\ \A s \in DOMAIN sessions \ {sid} :
                      /\ sessions'[s] = sessions[s]
                      /\ requireAuth(sessions', sign(s)) ]_vars

\* one of two sessions of the same user has logged out, the other stays
C15_Witness ==
    /\ out.route = "logout"
    /\ out.status = 200
    /\ out.sessionId \notin DOMAIN sessions
    /\ \E s \in DOMAIN sessions : sessions[s] = out.session

\* C16: every request gets exactly one response: a handler step that
\* writes no response leaves its request waiting on an outbound call (to
\* be resumed later), a step that answers a new request leaves the set
\* of waiting requests alone, and a step that answers a resumed request
\* takes exactly that request out of it.
C16_EveryRequestAnswered ==
    [][ HandlerStep
        => /\ out'.status = 0
              => BagCardinality(reqs') >= BagCardinality(reqs)
           /\ (out'.status # 0 /\ out'.step = "request")
              => reqs' = reqs
           /\ (out'.status # 0 /\ out'.step = "resume")
              => BagCardinality(reqs') = BagCardinality(reqs) - 1 ]_vars

\* C17: once every callback that presented nonce N has ended (in a
\* session or in a failure response), a further callback presenting N as
\* both state and nonce cookie is answered 400.
C17_NonceSingleUse ==
    [][ ( /\ HandlerStep
          /\ out'.route = "callback"
          /\ out'.step = "request"
          /\ out'.state = out'.nonceCookie
          /\ out'.state \in consumed
          /\ \A r \in Suspended : r.route # "callback" )
        => out'.status = 400 ]_vars

-----------------------------------------------------------------------------
(* A further Signer property, checked under SignerSpec *)

\* C18: verify returns a value v only for the token that is exactly v,
\* the delimiter and HMAC(v); every other token, also sign(v) followed by
\* a further delimiter and a suffix, verifies to invalid.
C18_OnlyExactTokenVerifies ==
    (sres # Unset /\ sres # Null) => stok = sres \o <<".">> \o Hmac(sres)

-----------------------------------------------------------------------------
(* Session store properties, checked under Spec *)

\* C19: the session store changes only by a successful callback adding
\* one new id with the identity it fetched, or by a logout removing the
\* id its cookie names; the other entries keep their identity.  So the
\* ids in the store are those created by successful callbacks and not
\* logged out since, each with the identity it was created with, and
\* requireAuth lets a request through exactly when its cookie verifies
\* to one of them.
C19_SessionLifecycle ==
    [][ /\ sessions' # sessions
           => \/ /\ out'.route = "callback"
                 /\ out'.status = 302
                 /\ out'.sessionId \notin DOMAIN sessions
                 /\ DOMAIN sessions' = DOMAIN sessions \cup {out'.sessionId}
                 /\ sessions'[out'.sessionId] = out'.fetched
                 /\ \A s \in DOMAIN sessions : sessions'[s] = sessions[s]
              \/ /\ out'.route = "logout"
                 /\ out'.status = 200
                 /\ out'.sessionId = verify(out'.sidCookie)
                 /\ out'.sessionId \in DOMAIN sessions
                 /\ DOMAIN sessions' = DOMAIN sessions \ {out'.sessionId}
                 /\ \A s \in DOMAIN sessions' : sessions'[s] = sessions[s]
        /\ DOMAIN sessions' = DOMAIN issued' \ revoked'
        /\ \A s \in DOMAIN sessions' : sessions'[s] = issued'[s]
        /\ ( HandlerStep /\ out'.step = "request"
                         /\ out'.route \in Protected )
           => ( out'.status # 401
                <=> verify(out'.sidCookie) \in DOMAIN issued \ revoked ) ]_vars

\* two sessions were created, one of them has just logged out
C19_Witness ==
    /\ Cardinality(DOMAIN issued) = 2
    /\ revoked = {out.sessionId}
    /\ Cardinality(DOMAIN sessions) = 1
    /\ out.route = "logout"
    /\ out.status = 200

\* the response carries protected content: the identity and flags of
\* /api/me, or an archive
ProtectedContent(ev) ==
    \/ ev.route = "me" /\ ev.status = 200
    \/ ev.sent # ""

\* C20 as stated: once a session's logout has been answered, no response
\* to a request of that session carries protected content, also when the
\* request passed requireAuth before the logout.
C20_LogoutStopsInFlight ==
    ProtectedContent(out) => out.sessionId \notin revoked

\* C20, amended: once a session's logout has been answered, a request
\* that arrives with that session's cookie is answered 401, with no
\* content and no provider call; protected content for a logged-out
\* session is only ever sent by a request that had passed requireAuth
\* before the logout and was waiting for its member lookup.
C20_NoContentForLaterRequests ==
    [][ HandlerStep
        => /\ ( /\ out'.step = "request"
                /\ out'.route \in Protected
                /\ verify(out'.sidCookie) \in revoked )
              => /\ out'.status = 401
                 /\ out'.calls = {}
                 /\ ~ProtectedContent(out')
                 /\ reqs' = reqs
           /\ ( ProtectedContent(out') /\ out'.sessionId \in revoked )
              => /\ out'.step = "resume"
                 /\ \E r \in Suspended :
                       /\ r.pc = "member"
                       /\ r.sessionId = out'.sessionId
                       /\ r.route = out'.route ]_vars

\* the Pro pack is sent to a request whose session logged out while its
\* member lookup was in flight
C20_Witness ==
    /\ out.step = "resume"
    /\ out.sent = "pro.zip"
    /\ out.sessionId \in revoked
    /\ out.sessionId \notin DOMAIN sessions

====
